---- MODULE Spec2Model ----
(***************************************************************************)
(* Model of the generate-android-app edge function                         *)
(* (supabase/functions/generate-android-app/index.ts): the request         *)
(* handler, the project generation (identifiers, rendered files, archive   *)
(* entries) and the publish step (bucket provisioning, upload with retry,  *)
(* public address), run against a storage collaborator that may fail.      *)
(*                                                                         *)
(* Text is modelled as a sequence of chunks: user-supplied text (the app   *)
(* name) is a sequence of single characters, fixed template text is kept   *)
(* in larger chunks.  Concatenation is \o.                                 *)
(***************************************************************************)
EXTENDS Naturals, Sequences, FiniteSets

\* ------------------------------------------------------------------ bounds

\* Longest app name the requests carry.
MaxNameLen == 2

\* Most submissions of the form in one run.
MaxSubmits == 2

\* ------------------------------------------------------- program constants

\* The loop bound off by one: i <= 3
MaxAttemptsOffByOne == 3 + 1

\* for (let i = 0; i < 3; i++)
MaxAttempts == 3

\* setTimeout(resolve, 1000 * (i + 1))
BackoffUnitMs == 1000

BucketName == "android-apps"

\* ------------------------------------------------------------------- text

\* Characters the modelled app names are built from: a lowercase letter, an
\* uppercase letter, a digit, a space and a punctuation mark.
Alphabet == {"a", "Z", "7", " ", "!"}

UpperCase == <<"A", "B", "C", "D", "E", "F", "G", "H", "I", "J", "K", "L", "M",
               "N", "O", "P", "Q", "R", "S", "T", "U", "V", "W", "X", "Y", "Z">>

LowerCase == <<"a", "b", "c", "d", "e", "f", "g", "h", "i", "j", "k", "l", "m",
               "n", "o", "p", "q", "r", "s", "t", "u", "v", "w", "x", "y", "z">>

Digits == {"0", "1", "2", "3", "4", "5", "6", "7", "8", "9"}

Range(s) == {s[k] : k \in DOMAIN s}

\* String.prototype.toLowerCase, one character
LowerChar(c) ==
    IF \E k \in DOMAIN UpperCase : UpperCase[k] = c
    THEN LowerCase[CHOOSE k \in DOMAIN UpperCase : UpperCase[k] = c]
    ELSE c

\* String.prototype.toLowerCase
ToLowerCase(s) == [k \in DOMAIN s |-> LowerChar(s[k])]

\* the character class [a-z0-9]
IsLowerAlnum(c) == c \in Range(LowerCase) \cup Digits

\* The replace without its g flag: only the first such character goes
StripFirstNonAlnum(s) ==
    LET bad == {k \in DOMAIN s : ~IsLowerAlnum(s[k])}
    IN  IF bad = {} THEN s
        ELSE LET k == CHOOSE b \in bad : \A j \in bad : b <= j
             IN  SubSeq(s, 1, k - 1) \o SubSeq(s, k + 1, Len(s))

\* s.replace(/[^a-z0-9]/g, '')
RECURSIVE StripNonAlnum(_)
StripNonAlnum(s) ==
    IF s = <<>> THEN <<>>
    ELSE (IF IsLowerAlnum(Head(s)) THEN <<Head(s)>> ELSE <<>>)
         \o StripNonAlnum(Tail(s))

\* appName.toLowerCase().replace(/[^a-z0-9]/g, '')
Sanitize(name) == StripNonAlnum(ToLowerCase(name))

\* String.prototype.startsWith
StartsWith(s, prefix) ==
    /\ Len(s) >= Len(prefix)
    /\ SubSeq(s, 1, Len(prefix)) = prefix

\* String.prototype.split(sep) for a one-chunk separator: the pieces between
\* the separators, empty pieces included.
RECURSIVE SplitFrom(_, _, _)
SplitFrom(s, sep, cur) ==
    IF s = <<>> THEN <<cur>>
    ELSE IF Head(s) = sep
         THEN <<cur>> \o SplitFrom(Tail(s), sep, <<>>)
         ELSE SplitFrom(Tail(s), sep, Append(cur, Head(s)))

Split(s, sep) == SplitFrom(s, sep, <<>>)

\* Array.prototype.join(sep)
RECURSIVE Join(_, _)
Join(parts, sep) ==
    IF parts = <<>> THEN <<>>
    ELSE IF Len(parts) = 1 THEN parts[1]
    ELSE parts[1] \o <<sep>> \o Join(Tail(parts), sep)

\* Number of occurrences of a chunk in a text
RECURSIVE Count(_, _)
Count(x, s) ==
    IF s = <<>> THEN 0
    ELSE (IF Head(s) = x THEN 1 ELSE 0) + Count(x, Tail(s))

\* ---------------------------------------------------------------- archive

\* An archive (JSZip instance) is the sequence of its entries in insertion
\* order, each [name, dir, data]; name is the full path as text.
Slash == "/"

\* jszip forceTrailingSlash
ForceTrailingSlash(name) ==
    IF name # <<>> /\ name[Len(name)] = Slash THEN name ELSE Append(name, Slash)

\* jszip parentFolder: the path up to the last slash (a trailing one apart),
\* empty when there is none
ParentFolder(path) ==
    LET p == IF path # <<>> /\ path[Len(path)] = Slash
             THEN SubSeq(path, 1, Len(path) - 1) ELSE path
        slashes == {k \in DOMAIN p : p[k] = Slash}
    IN  IF slashes = {} THEN <<>>
        ELSE SubSeq(p, 1, (CHOOSE k \in slashes : \A j \in slashes : j <= k) - 1)

HasEntry(zip, name) == \E k \in DOMAIN zip : zip[k].name = name

RECURSIVE FileAdd(_, _, _, _)
RECURSIVE FolderAdd(_, _)

\* jszip fileAdd with createFolders: the parent folders first, then the entry
FileAdd(zip, name, data, dir) ==
    LET nm == IF dir THEN ForceTrailingSlash(name) ELSE name
        parent == ParentFolder(nm)
        withParents == IF parent # <<>> THEN FolderAdd(zip, parent) ELSE zip
    IN  Append(withParents, [name |-> nm, dir |-> dir, data |-> data])

\* jszip folderAdd: nothing when the folder is already there
FolderAdd(zip, name) ==
    LET nm == ForceTrailingSlash(name)
    IN  IF HasEntry(zip, nm) THEN zip ELSE FileAdd(zip, nm, <<>>, TRUE)

\* zip.folder(arg) on an instance rooted at root: the archive afterwards
ZipFolder(zip, root, arg) == FolderAdd(zip, root \o arg)

\* ... and the root of the instance it returns
FolderRoot(root, arg) == ForceTrailingSlash(root \o arg)

\* zip.file(name, data) on an instance rooted at root
ZipFile(zip, root, name, data) == FileAdd(zip, root \o name, data, FALSE)

\* Paths of the archive's file entries (directories apart)
FilePaths(zip) == {zip[k].name : k \in {j \in DOMAIN zip : ~zip[j].dir}}

\* Content of the file entry at a path: the one written last
FileData(zip, path) ==
    zip[CHOOSE k \in DOMAIN zip :
            /\ zip[k].name = path
            /\ \A j \in DOMAIN zip : zip[j].name = path => j <= k].data

\* -------------------------------------------------------------- templates

PackagePrefix == <<"c", "o", "m", ".", "w", "e", "b", "v", "i", "e", "w", ".">>

\* `com.webview.${config.appName.toLowerCase().replace(/[^a-z0-9]/g, '')}`
PackageName(cfg) == PackagePrefix \o Sanitize(cfg.appName)

\* `${Date.now()}-${config.appName.toLowerCase().replace(/[^a-z0-9]/g, '')}`
AppId(now, cfg) == <<now, "-">> \o Sanitize(cfg.appName)

\* `${appId}/app-debug.apk`
ObjectPath(now, cfg) == AppId(now, cfg) \o <<Slash, "app-debug.apk">>

\* The package directory named by the package name itself, dots kept
PackagePathUnsplit(cfg) == PackageName(cfg)

\* packageName.split('.').join('/')
PackagePath(cfg) == Join(Split(PackageName(cfg), "."), Slash)

Indent == "\n    "
InternetLine == "<uses-permission android:name=\"android.permission.INTERNET\" />"
PostNotificationsLine ==
    "<uses-permission android:name=\"android.permission.POST_NOTIFICATIONS\" />"
MediaContentControlLine ==
    "<uses-permission android:name=\"android.permission.MEDIA_CONTENT_CONTROL\" />"

\* config.enableNotifications ? '<uses-permission ... POST_NOTIFICATIONS" />' : ''
NotificationsChunk(cfg) ==
    IF cfg.enableNotifications THEN <<PostNotificationsLine>> ELSE <<>>

\* The music-controls line switched by the notifications flag
MusicControlsChunkWrongFlag(cfg) ==
    IF cfg.enableNotifications THEN <<MediaContentControlLine>> ELSE <<>>

\* config.enableMusicControls ? '<uses-permission ... MEDIA_CONTENT_CONTROL" />' : ''
MusicControlsChunk(cfg) ==
    IF cfg.enableMusicControls THEN <<MediaContentControlLine>> ELSE <<>>

ManifestContent(cfg) ==
    <<"<?xml version=\"1.0\" encoding=\"utf-8\"?>\n<manifest ... package=\"">>
    \o PackageName(cfg)
    \o <<"\">\n", Indent, InternetLine, Indent>>
    \o NotificationsChunk(cfg)
    \o <<Indent>>
    \o MusicControlsChunk(cfg)
    \o <<"\n\n    <application ...>...</application>\n</manifest>">>

NetworkSecurityConfig == <<"<network-security-config>...</network-security-config>">>

MainActivityContent(cfg) ==
    <<"package ">> \o PackageName(cfg)
    \o <<";\n ... webView.loadUrl(\"">> \o cfg.websiteUrl \o <<"\"); ... }">>

ActivityMainLayout == <<"<RelativeLayout ...><WebView .../></RelativeLayout>">>

StringsContent(cfg) ==
    <<"<resources>\n    <string name=\"app_name\">">> \o cfg.appName
    \o <<"</string>\n</resources>">>

StylesContent == <<"<resources><style name=\"AppTheme\" ...>...</style></resources>">>

BuildGradleContent(cfg) ==
    <<"plugins {...} android {\n    namespace '">> \o PackageName(cfg)
    \o <<"' ... applicationId \"">> \o PackageName(cfg)
    \o <<"\" ... } dependencies {...}">>

SettingsGradleContent(cfg) ==
    <<"rootProject.name = \"">> \o cfg.appName \o <<"\"\ninclude ':app'">>

GradleWrapperContent == <<"distributionBase=GRADLE_USER_HOME ...">>

\* ------------------------------------------------------------------- icon

ImagePrefix == <<"data:image">>

\* Buffer.from(text, 'base64'): three bytes for every group of four characters
Base64Group(g) ==
    CASE g = "AAAA" -> <<"00", "00", "00">>
      [] g = "/9j/" -> <<"ff", "d8", "ff">>
      [] OTHER -> <<>>

RECURSIVE Base64Decode(_)
Base64Decode(s) ==
    IF s = <<>> THEN <<>> ELSE Base64Group(Head(s)) \o Base64Decode(Tail(s))

\* config.icon && config.icon.startsWith('data:image')
IconAccepted(cfg) == cfg.icon # <<>> /\ StartsWith(cfg.icon, ImagePrefix)

\* config.icon.split(',')[1] is undefined: Buffer.from(undefined, 'base64') throws
IconThrows(cfg) == IconAccepted(cfg) /\ Len(Split(cfg.icon, ",")) < 2

BufferTypeError == <<"The first argument must be of type string or an instance of Buffer">>

\* Buffer.from(config.icon.split(',')[1], 'base64')
IconData(cfg) == Base64Decode(Split(cfg.icon, ",")[2])

\* ------------------------------------------------------------- generation

AppRoot == <<"app", Slash>>
MainRoot == AppRoot \o <<"src", Slash, "main", Slash>>
JavaRoot == MainRoot \o <<"java", Slash>>
ResRoot == MainRoot \o <<"res", Slash>>
LayoutRoot == ResRoot \o <<"layout", Slash>>
ValuesRoot == ResRoot \o <<"values", Slash>>
MipmapRoot == ResRoot \o <<"mipmap-xxxhdpi", Slash>>
XmlRoot == ResRoot \o <<"xml", Slash>>

\* zip.folder("app") ... resDir.folder("xml"): the directory structure
ZipFolders ==
    LET z1 == ZipFolder(<<>>, <<>>, <<"app">>)
        z2 == ZipFolder(z1, FolderRoot(<<>>, <<"app">>), <<"src">>)
        z3 == ZipFolder(z2, FolderRoot(AppRoot, <<"src">>), <<"main">>)
        z4 == ZipFolder(z3, MainRoot, <<"java">>)
        z5 == ZipFolder(z4, MainRoot, <<"res">>)
        z6 == ZipFolder(z5, ResRoot, <<"layout">>)
        z7 == ZipFolder(z6, ResRoot, <<"values">>)
        z8 == ZipFolder(z7, ResRoot, <<"mipmap-xxxhdpi">>)
    IN  ZipFolder(z8, ResRoot, <<"xml">>)

\* The text files up to styles.xml, in the order the code writes them
ZipTextFiles(cfg) ==
    LET z1 == ZipFile(ZipFolders, MainRoot, <<"AndroidManifest.xml">>, ManifestContent(cfg))
        z2 == ZipFile(z1, XmlRoot, <<"network_security_config.xml">>, NetworkSecurityConfig)
        z3 == ZipFolder(z2, JavaRoot, PackagePath(cfg))
        z4 == ZipFile(z3, FolderRoot(JavaRoot, PackagePath(cfg)),
                      <<"MainActivity.java">>, MainActivityContent(cfg))
        z5 == ZipFile(z4, LayoutRoot, <<"activity_main.xml">>, ActivityMainLayout)
        z6 == ZipFile(z5, ValuesRoot, <<"strings.xml">>, StringsContent(cfg))
    IN  ZipFile(z6, ValuesRoot, <<"styles.xml">>, StylesContent)

\* if (config.icon && config.icon.startsWith('data:image')) mipmapDir.file(...)
ZipIcon(zip, cfg) ==
    IF IconAccepted(cfg)
    THEN ZipFile(zip, MipmapRoot, <<"ic_launcher.png">>, IconData(cfg))
    ELSE zip

\* build.gradle, settings.gradle and the gradle wrapper properties
ZipGradleFiles(zip, cfg) ==
    LET z1 == ZipFile(zip, AppRoot, <<"build.gradle">>, BuildGradleContent(cfg))
        z2 == ZipFile(z1, <<>>, <<"settings.gradle">>, SettingsGradleContent(cfg))
        z3 == ZipFolder(z2, <<>>, <<"gradle", Slash, "wrapper">>)
    IN  ZipFile(z3, FolderRoot(<<>>, <<"gradle", Slash, "wrapper">>),
                <<"gradle-wrapper.properties">>, GradleWrapperContent)

\* The archive generateAndroidApp assembles for a configuration
BuildZip(cfg) == ZipGradleFiles(ZipIcon(ZipTextFiles(cfg), cfg), cfg)

\* ------------------------------------------------------------------ state

\* The requests the function serves
Procs == {"r1", "r2"}

VARIABLES
    env,          \* the storage collaborator's failure modes
    config,       \* per request: the AppConfig its body parsed to
    now,          \* per request: Date.now() when generation starts
    pc,           \* per request: where its handler is suspended
    zip,          \* per request: the JSZip archive under construction
    i,            \* per request: the retry loop's counter
    uploadError,  \* per request: the retry loop's uploadError
    response,     \* per request: the Response returned, once returned
    buckets,      \* storage: names of the buckets that exist
    objects,      \* storage: paths of the objects in android-apps
    log           \* storage calls and timer waits made so far, in order

vars == <<env, config, now, pc, zip, i, uploadError, response, buckets, objects, log>>

\* The submission form (the App component) and what it has under way
VARIABLES
    formConfig,   \* the component's config state
    previewIcon,  \* the component's previewIcon state: the icon as a data URI
    isSubmitting, \* the component's isSubmitting state
    apiResponse,  \* the component's apiResponse state
    fileInput,    \* whether the file input element holds a file
    reading,      \* whether a FileReader started by handleIconChange is at work
    pending,      \* the fetches under way, each with its submission's number
    timers,       \* the reset timers under way, in the order they were set
    submits,      \* how many submissions have started
    resets        \* what each delayed reset that has run found and cleared

formVars == <<formConfig, previewIcon, isSubmitting, apiResponse, fileInput,
              reading, pending, timers, submits, resets>>

\* useState's initial config, and the config the delayed reset sets
EmptyForm == [websiteUrl |-> <<>>, appName |-> <<>>, icon |-> "null",
              enableNotifications |-> FALSE, enableMusicControls |-> FALSE]

\* apiResponse when it is null
NullResponse == [isNull |-> TRUE]

\* The component as mounted
InitForm ==
    /\ formConfig = EmptyForm
    /\ previewIcon = <<>>
    /\ isSubmitting = FALSE
    /\ apiResponse = NullResponse
    /\ fileInput = FALSE
    /\ reading = FALSE
    /\ pending = {}
    /\ timers = <<>>
    /\ submits = 0
    /\ resets = <<>>

\* ----------------------------------------------------------------- inputs

RECURSIVE SeqsUpTo(_, _)
SeqsUpTo(S, n) ==
    IF n = 0 THEN {<<>>}
    ELSE SeqsUpTo(S, n - 1) \cup [1..n -> S]

\* App names of the requests; the empty one is a missing (falsy) appName
Names == SeqsUpTo(Alphabet, MaxNameLen)

\* websiteUrl: missing, or a URL
Urls == {<<>>, <<"https://example.com">>}

\* icon: missing, an image data URI, an image data URI without a payload
\* part, a data URI of another media type
Icons == {<<>>,
          <<"data:image", "/png;base64", ",", "AAAA">>,
          <<"data:image", "/png;base64">>,
          <<"data:text", "/plain;base64", ",", "AAAA">>}

Configs == [websiteUrl : Urls, appName : Names, icon : Icons,
            enableNotifications : BOOLEAN, enableMusicControls : BOOLEAN]

NoConfig == [websiteUrl |-> <<>>, appName |-> <<>>, icon |-> <<>>,
             enableNotifications |-> FALSE, enableMusicControls |-> FALSE]

\* Date.now() of each request
Clock == [p \in Procs |-> IF p = "r1" THEN "1700000000001" ELSE "1700000000002"]

\* Messages of the storage collaborator's errors; "" is an error without one
NoMessage == ""
ErrorMessages == {"timeout", "quota exceeded", NoMessage}
DuplicateMessage == "The resource already exists"

\* ----------------------------------------------------------------- values

\* uploadError: undefined/null, or an error object with its message
Null == [isNull |-> TRUE, message |-> NoMessage]
Err(m) == [isNull |-> FALSE, message |-> m]

NoResponse == [status |-> 0]

\* One entry of log
Event(p, op, arg, ok, message, present) ==
    [proc |-> p, op |-> op, arg |-> arg, ok |-> ok, message |-> message,
     present |-> present]

\* What one upload call can come back with
UploadOutcomes ==
    {[kind |-> "ok", message |-> NoMessage]}
    \cup {[kind |-> "error", message |-> m] : m \in env.messages}
    \cup {[kind |-> "throw", message |-> m] : m \in (IF env.throws THEN env.messages ELSE {})}

\* What one createBucket call can come back with: an existing name is refused
CreateOutcomes ==
    IF BucketName \in buckets THEN {Err(DuplicateMessage)}
    ELSE {Null} \cup {Err(m) : m \in (IF env.createFails THEN env.messages \ {NoMessage} ELSE {})}

\* Whether one listBuckets call can come back with data, with an error
ListOutcomes == {TRUE} \cup (IF env.listFails THEN {FALSE} ELSE {})

\* supabaseClient.storage.from('android-apps').getPublicUrl(path)
GetPublicUrl(path) ==
    <<"https://project.supabase.co/storage/v1/object/public/", BucketName, Slash>> \o path

\* --------------------------------------------------------------- handler

\* The field check without its icon test
MissingFieldsIconForgotten(cfg) == cfg.websiteUrl = <<>> \/ cfg.appName = <<>>

\* !config.websiteUrl || !config.appName || !config.icon
MissingFields(cfg) == cfg.websiteUrl = <<>> \/ cfg.appName = <<>> \/ cfg.icon = <<>>

\* status 400, JSON.stringify({ error: 'Missing required fields' })
Response400 == [status |-> 400, body |-> [error |-> <<"Missing required fields">>]]

\* The handler's catch: status 500, { error: 'Internal server error', details }
Response500(message) ==
    [status |-> 500,
     body |-> [error |-> <<"Internal server error">>, details |-> message]]

\* JSON.stringify(result) of generateAndroidApp's return value
Response200(p) ==
    [status |-> 200,
     body |-> [success |-> TRUE,
               downloadUrl |-> GetPublicUrl(ObjectPath(now[p], config[p])),
               appName |-> config[p].appName,
               packageName |-> PackageName(config[p])]]

\* `Failed to create storage bucket: ${createBucketError.message}`
CreateBucketFailure(err) == <<"Failed to create storage bucket: ", err.message>>

\* `Failed to upload APK: ${uploadError.message || 'Unknown error'}`
UploadFailure(err) ==
    <<"Failed to upload APK: ",
      IF err.message # NoMessage THEN err.message ELSE "Unknown error">>

\* if (!uploadError) break
LoopBreaks(err) == err.isNull

\* The loop keeping the first error it saw instead of the latest
KeepFirstError(prev, err) == IF prev.isNull THEN err ELSE prev

\* uploadError = result.error / uploadError = error: the loop keeps the latest
NextUploadError(prev, err) == err

\* 1000 * (i + 1)
BackoffMs(n) == BackoffUnitMs * (n + 1)

\* The POST branch up to the field check
Validate(p) ==
    /\ pc[p] = "start"
    /\ IF MissingFields(config[p])
       THEN /\ response' = [response EXCEPT ![p] = Response400]
            /\ pc' = [pc EXCEPT ![p] = "done"]
       ELSE /\ pc' = [pc EXCEPT ![p] = "generate"]
            /\ UNCHANGED response
    /\ UNCHANGED <<env, config, now, zip, i, uploadError, buckets, objects, log>>
    /\ UNCHANGED formVars

\* generateAndroidApp up to await zip.generateAsync
Generate(p) ==
    /\ pc[p] = "generate"
    /\ IF IconThrows(config[p])
       THEN /\ response' = [response EXCEPT ![p] = Response500(BufferTypeError)]
            /\ pc' = [pc EXCEPT ![p] = "done"]
            /\ UNCHANGED zip
       ELSE /\ zip' = [zip EXCEPT ![p] = BuildZip(config[p])]
            /\ pc' = [pc EXCEPT ![p] = "list"]
            /\ UNCHANGED response
    /\ UNCHANGED <<env, config, now, i, uploadError, buckets, objects, log>>
    /\ UNCHANGED formVars

\* buckets?.find(b => b.name === 'android-apps') on listBuckets' data
FindBucket(ok, data) == ok /\ BucketName \in data

\* await listBuckets() and the test of its result
ListBuckets(p) ==
    /\ pc[p] = "list"
    /\ \E ok \in ListOutcomes :
        /\ log' = Append(log, Event(p, "listBuckets", 0, ok, NoMessage, BucketName \in buckets))
        /\ pc' = [pc EXCEPT ![p] = IF FindBucket(ok, buckets) THEN "upload" ELSE "create"]
    /\ UNCHANGED <<env, config, now, zip, i, uploadError, response, buckets, objects>>
    /\ UNCHANGED formVars

\* await createBucket('android-apps', { public: true }) and the test of its error
CreateBucket(p) ==
    /\ pc[p] = "create"
    /\ \E err \in CreateOutcomes :
        /\ log' = Append(log, Event(p, "createBucket", 0, err.isNull, err.message,
                                BucketName \in buckets))
        /\ IF err.isNull
           THEN /\ buckets' = buckets \cup {BucketName}
                /\ pc' = [pc EXCEPT ![p] = "upload"]
                /\ UNCHANGED response
           ELSE /\ response' = [response EXCEPT ![p] = Response500(CreateBucketFailure(err))]
                /\ pc' = [pc EXCEPT ![p] = "done"]
                /\ UNCHANGED buckets
    /\ UNCHANGED <<env, config, now, zip, i, uploadError, objects>>
    /\ UNCHANGED formVars

\* The code after the retry loop, reached with uploadError = err: the throw
\* and the handler's catch, or getPublicUrl and the success response
AfterLoopResponse(p, err) ==
    IF ~err.isNull THEN Response500(UploadFailure(err)) ELSE Response200(p)

AfterLoopLog(p, lg, err) ==
    IF ~err.isNull THEN lg
    ELSE Append(lg, Event(p, "getPublicUrl", 0, TRUE, NoMessage, BucketName \in buckets))

\* One iteration of the retry loop up to its next suspension: the upload, and
\* on a success or on the last thrown attempt the code after the loop
Upload(p) ==
    /\ pc[p] = "upload"
    /\ i[p] < MaxAttempts
    /\ \E out \in UploadOutcomes :
        LET err == NextUploadError(uploadError[p],
                                   IF out.kind = "ok" THEN Null ELSE Err(out.message))
            lg == Append(log, Event(p, "upload", i[p] + 1, out.kind = "ok", out.message,
                                    BucketName \in buckets))
            leaves == \/ out.kind = "ok" /\ LoopBreaks(err)
                      \/ out.kind = "throw" /\ ~(i[p] + 1 < MaxAttempts)
        IN  /\ uploadError' = [uploadError EXCEPT ![p] = err]
            /\ objects' = IF out.kind = "ok"
                          THEN objects \cup {ObjectPath(now[p], config[p])}
                          ELSE objects
            /\ i' = [i EXCEPT ![p] = IF out.kind = "throw" THEN @ + 1 ELSE @]
            /\ pc' = [pc EXCEPT ![p] =
                        IF leaves THEN "done"
                        ELSE IF out.kind = "throw" THEN "upload" ELSE "sleep"]
            /\ response' = [response EXCEPT ![p] =
                              IF leaves THEN AfterLoopResponse(p, err) ELSE @]
            /\ log' = IF leaves THEN AfterLoopLog(p, lg, err) ELSE lg
    /\ UNCHANGED <<env, config, now, zip, buckets>>
    /\ UNCHANGED formVars

\* await new Promise(resolve => setTimeout(resolve, 1000 * (i + 1))), the
\* loop's i++ and test, and after the last attempt the code after the loop
Sleep(p) ==
    /\ pc[p] = "sleep"
    /\ LET lg == Append(log, Event(p, "delay", BackoffMs(i[p]), TRUE, NoMessage,
                               BucketName \in buckets))
           leaves == ~(i[p] + 1 < MaxAttempts)
       IN  /\ i' = [i EXCEPT ![p] = @ + 1]
           /\ pc' = [pc EXCEPT ![p] = IF leaves THEN "done" ELSE "upload"]
           /\ response' = [response EXCEPT ![p] =
                             IF leaves THEN AfterLoopResponse(p, uploadError[p]) ELSE @]
           /\ log' = IF leaves THEN AfterLoopLog(p, lg, uploadError[p]) ELSE lg
    /\ UNCHANGED <<env, config, now, zip, uploadError, buckets, objects>>
    /\ UNCHANGED formVars

Next ==
    \E p \in Procs :
        \/ Validate(p)
        \/ Generate(p)
        \/ ListBuckets(p)
        \/ CreateBucket(p)
        \/ Upload(p)
        \/ Sleep(p)

\* Buckets the storage may hold when a request arrives
InitialBuckets == {{"avatars"}, {"avatars", BucketName}}

InitStorage ==
    /\ buckets \in InitialBuckets
    /\ objects = {}
    /\ log = <<>>

InitLocals ==
    /\ now = Clock
    /\ zip = [p \in Procs |-> <<>>]
    /\ i = [p \in Procs |-> 0]
    /\ uploadError = [p \in Procs |-> Null]
    /\ response = [p \in Procs |-> NoResponse]

\* A collaborator any of whose calls may fail, with any of the messages
FaultyStorage == [listFails |-> TRUE, createFails |-> TRUE, throws |-> TRUE,
                  messages |-> ErrorMessages]

\* A collaborator whose uploads may fail, and whose bucket calls fail only by
\* refusing an existing name
FlakyUploads == [listFails |-> FALSE, createFails |-> FALSE, throws |-> TRUE,
                 messages |-> {"timeout"}]

\* A collaborator any of whose calls may fail, with one message
PlainFaults == [listFails |-> TRUE, createFails |-> TRUE, throws |-> TRUE,
                messages |-> {"timeout"}]

OneRequest(cfgs) ==
    /\ \E cfg \in cfgs : config = [p \in Procs |-> IF p = "r1" THEN cfg ELSE NoConfig]
    /\ pc = [p \in Procs |-> IF p = "r1" THEN "start" ELSE "absent"]
    /\ InitLocals
    /\ InitStorage

\* One request with an app name of at most one character, against a
\* collaborator any of whose calls may fail in any way
Init ==
    /\ env = FaultyStorage
    /\ OneRequest({cfg \in Configs : Len(cfg.appName) <= 1})
    /\ InitForm

Spec == Init /\ [][Next]_vars

\* One request with any configuration, against a collaborator any of whose
\* calls may fail
InitGen ==
    /\ env = PlainFaults
    /\ OneRequest(Configs)
    /\ InitForm

SpecGen == InitGen /\ [][Next]_vars

\* Two valid requests in flight at once, with different app ids, the bucket
\* not yet there, against a collaborator whose bucket calls do not fail
ValidConfigs ==
    {cfg \in Configs : /\ ~MissingFields(cfg)
                       /\ IconAccepted(cfg) /\ ~IconThrows(cfg)
                       /\ cfg.appName \in {<<"a">>, <<"Z">>}
                       /\ cfg.enableNotifications /\ ~cfg.enableMusicControls}

InitConc ==
    /\ env = FlakyUploads
    /\ config \in [Procs -> ValidConfigs]
    /\ pc = [p \in Procs |-> "start"]
    /\ InitLocals
    /\ buckets = {"avatars"}
    /\ objects = {}
    /\ log = <<>>
    /\ InitForm

SpecConc == InitConc /\ [][Next]_vars

\* ------------------------------------------------------------------ form

\* What the user types into the URL and the name inputs
FormUrls == {<<>>, <<"https://example.com">>}
FormNames == {<<>>, <<"a">>, <<"Z">>}

\* The file the user picks, and reader.result for it
PickedFile == "icon.png"
PickedFileDataUrl == <<"data:image", "/png;base64", ",", "AAAA">>

\* JSON.stringify({websiteUrl, appName, icon: previewIcon, ...}): the body of
\* the request handleSubmit sends
RequestBody ==
    [websiteUrl |-> formConfig.websiteUrl,
     appName |-> formConfig.appName,
     icon |-> previewIcon,
     enableNotifications |-> formConfig.enableNotifications,
     enableMusicControls |-> formConfig.enableMusicControls]

\* The bodies the function can answer a request with: the missing-fields
\* error, or the success result or the handler's error for a pipeline failure
ServerResults(body) ==
    IF MissingFields(body) THEN {Response400.body}
    ELSE {[success |-> TRUE,
           downloadUrl |-> GetPublicUrl(ObjectPath(Clock["r1"], body)),
           appName |-> body.appName,
           packageName |-> PackageName(body)],
          Response500(UploadFailure(Err("timeout"))).body}

\* The catch of handleSubmit: fetch or response.json() rejected
ConnectFailure ==
    [success |-> FALSE,
     error |-> <<"Failed to connect to the server. Please try again.">>]

\* if (result.success)
ResultSucceeded(result) == "success" \in DOMAIN result /\ result.success

\* The submit button is enabled and the required inputs are filled
CanSubmit ==
    /\ ~isSubmitting
    /\ formConfig.websiteUrl # <<>>
    /\ formConfig.appName # <<>>
    /\ fileInput

\* onChange of the URL input
SetWebsiteUrl ==
    /\ \E v \in FormUrls : formConfig' = [formConfig EXCEPT !.websiteUrl = v]
    /\ UNCHANGED <<previewIcon, isSubmitting, apiResponse, fileInput, reading,
                   pending, timers, submits, resets>>
    /\ UNCHANGED vars

\* onChange of the name input
SetAppName ==
    /\ \E v \in FormNames : formConfig' = [formConfig EXCEPT !.appName = v]
    /\ UNCHANGED <<previewIcon, isSubmitting, apiResponse, fileInput, reading,
                   pending, timers, submits, resets>>
    /\ UNCHANGED vars

\* onChange of the notifications checkbox
SetEnableNotifications ==
    /\ \E b \in BOOLEAN : formConfig' = [formConfig EXCEPT !.enableNotifications = b]
    /\ UNCHANGED <<previewIcon, isSubmitting, apiResponse, fileInput, reading,
                   pending, timers, submits, resets>>
    /\ UNCHANGED vars

\* onChange of the music-controls checkbox
SetEnableMusicControls ==
    /\ \E b \in BOOLEAN : formConfig' = [formConfig EXCEPT !.enableMusicControls = b]
    /\ UNCHANGED <<previewIcon, isSubmitting, apiResponse, fileInput, reading,
                   pending, timers, submits, resets>>
    /\ UNCHANGED vars

\* handleIconChange with a file picked: config.icon and a FileReader started
HandleIconChange ==
    /\ formConfig' = [formConfig EXCEPT !.icon = PickedFile]
    /\ fileInput' = TRUE
    /\ reading' = TRUE
    /\ UNCHANGED <<previewIcon, isSubmitting, apiResponse, pending, timers,
                   submits, resets>>
    /\ UNCHANGED vars

\* reader.onloadend
ReaderLoadEnd ==
    /\ reading
    /\ reading' = FALSE
    /\ previewIcon' = PickedFileDataUrl
    /\ UNCHANGED <<formConfig, isSubmitting, apiResponse, fileInput, pending,
                   timers, submits, resets>>
    /\ UNCHANGED vars

\* handleSubmit up to await fetch
Submit ==
    /\ CanSubmit
    /\ submits < MaxSubmits
    /\ isSubmitting' = TRUE
    /\ apiResponse' = NullResponse
    /\ submits' = submits + 1
    /\ pending' = pending \cup {[id |-> submits + 1, body |-> RequestBody]}
    /\ UNCHANGED <<formConfig, previewIcon, fileInput, reading, timers, resets>>
    /\ UNCHANGED vars

\* handleSubmit from the fetch's answer on: the result shown, the delayed
\* reset set on a success, the finally
FetchAnswered ==
    /\ \E req \in pending : \E result \in ServerResults(req.body) :
        /\ pending' = pending \ {req}
        /\ apiResponse' = result
        /\ timers' = IF ResultSucceeded(result) THEN Append(timers, req.id) ELSE timers
    /\ isSubmitting' = FALSE
    /\ UNCHANGED <<formConfig, previewIcon, fileInput, reading, submits, resets>>
    /\ UNCHANGED vars

\* handleSubmit when fetch or response.json() rejects: the catch, the finally
FetchRejected ==
    /\ \E req \in pending : pending' = pending \ {req}
    /\ apiResponse' = ConnectFailure
    /\ isSubmitting' = FALSE
    /\ UNCHANGED <<formConfig, previewIcon, fileInput, reading, timers, submits, resets>>
    /\ UNCHANGED vars

\* The callback of setTimeout(..., 5000): the timers run in the order set
DelayedReset ==
    /\ timers # <<>>
    /\ formConfig' = EmptyForm
    /\ previewIcon' = <<>>
    /\ apiResponse' = NullResponse
    /\ timers' = Tail(timers)
    /\ resets' = Append(resets,
                        [of |-> Head(timers),
                         latest |-> submits,
                         clearedForm |-> formConfig # EmptyForm \/ previewIcon # <<>>,
                         clearedResponse |-> apiResponse # NullResponse])
    /\ UNCHANGED <<isSubmitting, fileInput, reading, pending, submits>>
    /\ UNCHANGED vars

NextForm ==
    \/ SetWebsiteUrl
    \/ SetAppName
    \/ SetEnableNotifications
    \/ SetEnableMusicControls
    \/ HandleIconChange
    \/ ReaderLoadEnd
    \/ Submit
    \/ FetchAnswered
    \/ FetchRejected
    \/ DelayedReset

\* The form as mounted, no request at the function yet
InitFormOnly ==
    /\ InitForm
    /\ env = PlainFaults
    /\ config = [p \in Procs |-> NoConfig]
    /\ pc = [p \in Procs |-> "absent"]
    /\ InitLocals
    /\ buckets = {"avatars"}
    /\ objects = {}
    /\ log = <<>>

SpecForm == InitFormOnly /\ [][NextForm]_<<vars, formVars>>

\* --------------------------------------------------------------- claims

\* The requests that arrived
Active == {p \in Procs : pc[p] # "absent"}

Done(p) == pc[p] = "done"

\* The calls of one kind a request made, in order
Calls(p, op) == SelectSeq(log, LAMBDA e : e.proc = p /\ e.op = op)

\* The uploads and the timer waits of a request, in order
LoopTrace(p) == SelectSeq(log, LAMBDA e : e.proc = p /\ e.op \in {"upload", "delay"})

StorageCalls(p) ==
    SelectSeq(log, LAMBDA e : e.proc = p
                              /\ e.op \in {"listBuckets", "createBucket", "upload", "getPublicUrl"})

Succeeded(p) == Done(p) /\ response[p].status = 200

\* C1: upload is called on attempts 1, 2, ... in turn, at most 3 times and
\* never again after a successful call; a publish that has ended made exactly
\* min(3, k) calls, k the first successful attempt; and the request succeeds,
\* the public address resolved, exactly when one of the calls succeeded.
C1_UploadAttemptsBounded ==
    \A p \in Active :
        LET ups == Calls(p, "upload")
        IN  /\ Len(ups) <= 3
            /\ \A k \in DOMAIN ups : ups[k].arg = k
            /\ \A k \in DOMAIN ups : ups[k].ok => k = Len(ups)
            /\ (Done(p) /\ ups # <<>>) => (ups[Len(ups)].ok \/ Len(ups) = 3)
            /\ Done(p) => (response[p].status = 200 <=> \E k \in DOMAIN ups : ups[k].ok)
            /\ Succeeded(p) =>
                  /\ Len(Calls(p, "getPublicUrl")) = 1
                  /\ response[p].body.success
                  /\ response[p].body.downloadUrl = GetPublicUrl(ObjectPath(now[p], config[p]))

\* C1 witness: two failed uploads, a third that succeeds, and the success
C1_Witness ==
    LET ups == Calls("r1", "upload")
    IN  /\ Succeeded("r1")
        /\ Len(ups) = 3
        /\ ~ups[1].ok /\ ~ups[2].ok /\ ups[3].ok

\* C2 as claimed: every timer wait follows a failed attempt n < 3 and lasts
\* 1000 ms x n, and every attempt after the first is preceded by its wait.
C2_DelayBetweenAttempts ==
    \A p \in Active :
        LET tr == LoopTrace(p)
        IN  \A k \in DOMAIN tr :
              /\ tr[k].op = "delay" =>
                    /\ k > 1
                    /\ tr[k - 1].op = "upload" /\ ~tr[k - 1].ok
                    /\ tr[k - 1].arg < 3
                    /\ tr[k].arg = 1000 * tr[k - 1].arg
                    /\ tr[k].arg \in {1000, 2000}
              /\ (tr[k].op = "upload" /\ tr[k].arg > 1) =>
                    /\ tr[k - 1].op = "delay"
                    /\ tr[k - 1].arg = 1000 * (tr[k].arg - 1)

\* What the exhausted publish reports for the error of its last attempt
ExhaustedDetails(e) ==
    <<"Failed to upload APK: ", IF e.message = "" THEN "Unknown error" ELSE e.message>>

\* C3: when three uploads have failed the request ends as a failure whose
\* message is "Failed to upload APK: " and the message of the third attempt's
\* error ("Unknown error" where that error has none), and getPublicUrl is not
\* called.
C3_ExhaustedCarriesLastError ==
    \A p \in Active :
        LET ups == Calls(p, "upload")
        IN  (Done(p) /\ Len(ups) = 3 /\ ~ups[3].ok) =>
                /\ response[p].status = 500
                /\ response[p].body.details = ExhaustedDetails(ups[3])
                /\ "success" \notin DOMAIN response[p].body
                /\ Calls(p, "getPublicUrl") = <<>>

\* C3 witness: three failed uploads whose errors carry different messages
C3_Witness ==
    LET ups == Calls("r1", "upload")
    IN  /\ Done("r1")
        /\ Len(ups) = 3
        /\ ~ups[3].ok
        /\ ups[1].message = "timeout"
        /\ ups[3].message = "quota exceeded"

\* C4: a request lacking websiteUrl, appName or icon makes no storage call,
\* builds no archive, and ends with status 400 and the missing-fields error.
C4_MissingFieldsNoStorage ==
    \A p \in Active :
        (config[p].websiteUrl = <<>> \/ config[p].appName = <<>> \/ config[p].icon = <<>>) =>
            /\ StorageCalls(p) = <<>>
            /\ zip[p] = <<>>
            /\ Done(p) =>
                  /\ response[p].status = 400
                  /\ response[p].body = [error |-> <<"Missing required fields">>]

\* C4 witness: a request with only its icon missing has been answered
C4_Witness ==
    /\ Done("r1")
    /\ config["r1"].websiteUrl # <<>>
    /\ config["r1"].appName # <<>>
    /\ config["r1"].icon = <<>>
    /\ response["r1"].status = 400

\* C5 as claimed: createBucket is called only when the bucket is absent from
\* the storage, it is called when a finished publish found the bucket absent,
\* and after a createBucket error no upload is made.
C5_CreateBucketIffAbsent ==
    \A p \in Active :
        LET creates == Calls(p, "createBucket")
            lists == Calls(p, "listBuckets")
        IN  /\ \A k \in DOMAIN creates : ~creates[k].present
            /\ (Done(p) /\ lists # <<>> /\ ~lists[1].present) => creates # <<>>
            /\ (creates # <<>> /\ ~creates[1].ok) =>
                  /\ Calls(p, "upload") = <<>>
                  /\ Done(p) /\ response[p].status = 500

\* What a request's own inputs and its own uploads' results give when it runs
\* alone against a collaborator whose bucket calls do not fail
AloneResponse(p) ==
    LET ups == Calls(p, "upload")
    IN  IF \E k \in DOMAIN ups : ups[k].ok THEN Response200(p)
        ELSE Response500(ExhaustedDetails(ups[Len(ups)]))

\* C6 as claimed: with two requests in flight, each one that has ended has the
\* outcome its own uploads give it: none fails for what the other did.
C6_ConcurrentRequestsIndependent ==
    \A p \in Active :
        Done(p) =>
            /\ Calls(p, "upload") # <<>>
            /\ response[p] = AloneResponse(p)

\* C7 as claimed: a request whose icon is there but does not start with
\* 'data:image' uploads nothing and does not succeed.
C7_NonImageIconRejected ==
    \A p \in Active :
        (~MissingFields(config[p]) /\ ~StartsWith(config[p].icon, <<"data:image">>)) =>
            /\ Calls(p, "upload") = <<>>
            /\ ~Succeeded(p)

\* The message of the failure that ended a request which passed validation
FailureMessage(p) ==
    LET creates == Calls(p, "createBucket")
        ups == Calls(p, "upload")
    IN  IF ups # <<>> THEN ExhaustedDetails(ups[Len(ups)])
        ELSE IF creates # <<>>
             THEN <<"Failed to create storage bucket: ", creates[1].message>>
             ELSE <<"The first argument must be of type string or an instance of Buffer">>

\* C8 as claimed: a request that passed validation is answered with a body
\* that has a success field, and one that then failed is answered
\* {success: false, error: the failure's message}.
C8_FailuresAreStructured ==
    \A p \in Active :
        (Done(p) /\ ~MissingFields(config[p])) =>
            /\ "success" \in DOMAIN response[p].body
            /\ response[p].status # 200 =>
                  response[p].body = [success |-> FALSE, error |-> FailureMessage(p)]

SrcMain == <<"app", "/", "src", "/", "main", "/">>

\* The directory of the entry-point source file for a sanitized app name
EntryPointDir(san) ==
    SrcMain \o <<"java", "/", "c", "o", "m", "/", "w", "e", "b", "v", "i", "e", "w", "/">>
    \o (IF san = <<>> THEN <<>> ELSE san \o <<"/">>)

\* The seven files of the project subtree the claim names, the icon among them
SubtreePaths(cfg) ==
    {SrcMain \o <<"AndroidManifest.xml">>,
     EntryPointDir(Sanitize(cfg.appName)) \o <<"MainActivity.java">>,
     SrcMain \o <<"res", "/", "layout", "/", "activity_main.xml">>,
     SrcMain \o <<"res", "/", "values", "/", "strings.xml">>,
     SrcMain \o <<"res", "/", "values", "/", "styles.xml">>,
     SrcMain \o <<"res", "/", "xml", "/", "network_security_config.xml">>,
     SrcMain \o <<"res", "/", "mipmap-xxxhdpi", "/", "ic_launcher.png">>}

IconPath == SrcMain \o <<"res", "/", "mipmap-xxxhdpi", "/", "ic_launcher.png">>

\* The three descriptor files the code writes outside app/src/main
DescriptorPaths ==
    {<<"settings.gradle">>,
     <<"app", "/", "build.gradle">>,
     <<"gradle", "/", "wrapper", "/", "gradle-wrapper.properties">>}

AtRoot(path) == \A k \in DOMAIN path : path[k] # "/"

NoPathTwice(z) == \A j, k \in DOMAIN z : z[j].name = z[k].name => j = k

\* C9 as claimed: the files are the seven of the subtree and two descriptors
\* at the archive's root, whatever the icon payload.
C9_NinePathsAsClaimed ==
    \A p \in Active :
        zip[p] # <<>> =>
            \E a, b \in FilePaths(zip[p]) :
                /\ a # b /\ AtRoot(a) /\ AtRoot(b)
                /\ FilePaths(zip[p]) = SubtreePaths(config[p]) \cup {a, b}

\* C9 amended: the files of an assembled archive are settings.gradle,
\* app/build.gradle, gradle/wrapper/gradle-wrapper.properties and the files of
\* the subtree, the icon file among them exactly when the icon payload starts
\* with 'data:image'; no path is written twice; the set depends on nothing
\* else of the configuration than the sanitized app name.
C9_ArchivePaths ==
    \A p \in Active :
        zip[p] # <<>> =>
            /\ FilePaths(zip[p]) =
                  DescriptorPaths
                  \cup (SubtreePaths(config[p]) \ {IconPath})
                  \cup (IF StartsWith(config[p].icon, <<"data:image">>)
                        THEN {IconPath} ELSE {})
            /\ NoPathTwice(zip[p])

\* C9 witness: an archive assembled for an app name that sanitizing changes,
\* with an image icon and both flags set
C9_Witness ==
    /\ zip["r1"] # <<>>
    /\ config["r1"].appName = <<"Z", "!">>
    /\ StartsWith(config["r1"].icon, <<"data:image">>)
    /\ config["r1"].enableNotifications /\ config["r1"].enableMusicControls

\* C10: the manifest of an assembled archive holds the POST_NOTIFICATIONS line
\* once when enableNotifications is set and not at all otherwise, and the
\* MEDIA_CONTENT_CONTROL line once when enableMusicControls is set and not at
\* all otherwise.
C10_ManifestPermissionLines ==
    \A p \in Active :
        zip[p] # <<>> =>
            LET manifest == FileData(zip[p], SrcMain \o <<"AndroidManifest.xml">>)
            IN  /\ Count(PostNotificationsLine, manifest)
                      = (IF config[p].enableNotifications THEN 1 ELSE 0)
                /\ Count(MediaContentControlLine, manifest)
                      = (IF config[p].enableMusicControls THEN 1 ELSE 0)

\* C10 witness: an archive assembled with notifications on, music controls off
C10_Witness ==
    /\ zip["r1"] # <<>>
    /\ config["r1"].enableNotifications
    /\ ~config["r1"].enableMusicControls

\* A letter or a digit of either case: what sanitizing keeps
IsAsciiAlnum(c) == c \in Range(LowerCase) \cup Range(UpperCase) \cup Digits

\* C11: the sanitized app name of every request is left unchanged by
\* sanitizing it again, holds only lowercase letters and digits, one for each
\* letter or digit of the app name (so none when the name has none), and the
\* packageName a successful request returns is 'com.webview.' followed by it.
C11_SanitizeIdempotent ==
    \A p \in Active :
        LET out == Sanitize(config[p].appName)
        IN  /\ Sanitize(out) = out
            /\ \A k \in DOMAIN out : out[k] \in Range(LowerCase) \cup Digits
            /\ Len(out) = Cardinality({k \in DOMAIN config[p].appName :
                                          IsAsciiAlnum(config[p].appName[k])})
            /\ Succeeded(p) =>
                  response[p].body.packageName
                      = <<"c", "o", "m", ".", "w", "e", "b", "v", "i", "e", "w", ".">> \o out

\* C11 witness: a successful request whose app name is an uppercase letter
\* and a punctuation mark
C11_Witness ==
    /\ Succeeded("r1")
    /\ config["r1"].appName = <<"Z", "!">>
    /\ response["r1"].body.packageName
          = <<"c", "o", "m", ".", "w", "e", "b", "v", "i", "e", "w", ".", "z">>

\* C12 as claimed: a delayed reset that runs after a later submission has
\* started clears neither form contents nor a displayed response.
C12_ResetClearsOnlyOwnSubmission ==
    \A k \in DOMAIN resets :
        resets[k].latest > resets[k].of =>
            /\ ~resets[k].clearedForm
            /\ ~resets[k].clearedResponse

\* The other half of C12: isSubmitting is true exactly while a fetch is under
\* way, and never more than one is.
C12_SubmittingWhileInFlight ==
    /\ isSubmitting <=> pending # {}
    /\ Cardinality(pending) <= 1

====
